---- MODULE Spec2Model ----
(***************************************************************************)
(* A model of the playlist auto-updater (github-action/update-playlists.mjs)*)
(* and of the legacy directory-scan updater.  The credential rotator        *)
(* (ApiKeyManager), the quota-aware requester (youtubeRequest), the member  *)
(* pagination (fetchPlaylistVideos), the index synchronizer                 *)
(* (updateIndexFiles) and the change detection / update loop of main are    *)
(* translated operation by operation.                                       *)
(***************************************************************************)
EXTENDS Integers, Sequences, FiniteSets, TLC

(***************************************************************************)
(* Bounds of the model.                                                     *)
(***************************************************************************)
MaxKeys == 3        \* pool sizes 1..MaxKeys are explored
MaxRequests == 3    \* logical youtubeRequest calls per behaviour
MaxOps == 6         \* direct ApiKeyManager method calls per behaviour
MaxPages == 2       \* pages of one member listing
MaxItems == 2       \* raw items of one member listing, over all its pages
MaxEntries == 2     \* entries of one index file before the run
MaxSyncs == 2       \* updateIndexFiles calls per behaviour
MaxMainKeys == 2    \* pool sizes 1..MaxMainKeys of a run of main
MaxCount == 2       \* member counts 1..MaxCount, locally and remotely
MaxLegacyKeys == 3  \* API_KEYS lengths 1..MaxLegacyKeys of the directory-scan updater
MaxLegacyPages == 2 \* pages of a member listing it walks
MaxLegacyRuns == 2  \* playlists it updates in one behaviour

VARIABLES
    km,         \* the ApiKeyManager: keys (their number), currentIndex, exhaustedKeys
    req,        \* the youtubeRequest call in progress or last finished
    reqCount,   \* number of youtubeRequest calls started
    quotaRun,   \* length of the current run of consecutive quota-exceeded signals
    sawAllExhausted, \* history: allExhausted has been true at some earlier point
    rot,        \* history of the last direct ApiKeyManager method call
    fp,         \* the fetchPlaylistVideos call in progress or last finished
    fs,         \* the index files on disk and channels.json
    ix,         \* history of the updateIndexFiles calls: the playlist passed,
                \* the files before the last call, the number of calls
    disk,       \* auto-update.json (manifest), the playlist files, the run log
    remote,     \* what the remote holds for each playlist id
    mp,         \* main: its position and local variables
    lg          \* the directory-scan updater: its keys, position and file

reqVars == <<req, reqCount, quotaRun, sawAllExhausted>>
mainVars == <<disk, remote, mp>>
vars == <<km, req, reqCount, quotaRun, sawAllExhausted, rot, fp, fs, ix,
          disk, remote, mp, lg>>

(***************************************************************************)
(* ApiKeyManager                                                            *)
(***************************************************************************)
\* constructor: keys are identified by their index 0..n-1
NewKeyManager(n) == [keys |-> n, currentIndex |-> 0, exhaustedKeys |-> {}]

allExhaustedOffByOne(m) == Cardinality(m.exhaustedKeys) > m.keys
\* get allExhausted
allExhausted(m) == Cardinality(m.exhaustedKeys) >= m.keys

\* the index probed at step i of the scan of rotateToNext
ScanIndexFromCurrent(m, i) == (m.currentIndex + i) % m.keys
ScanIndex(m, i) == (m.currentIndex + 1 + i) % m.keys

RECURSIVE RotateScan(_, _)
RotateScan(m, i) ==
    IF i >= m.keys
    THEN [km |-> m, found |-> FALSE]
    ELSE LET nextIndex == ScanIndex(m, i) IN
         IF nextIndex \notin m.exhaustedKeys
         THEN [km |-> [m EXCEPT !.currentIndex = nextIndex], found |-> TRUE]
         ELSE RotateScan(m, i + 1)

rotateToNextStaying(m) == [km |-> m, found |-> ~allExhausted(m)]
\* rotateToNext(): result.found is its return value
rotateToNext(m) == RotateScan(m, 0)

AddExhausted(m) == [m EXCEPT !.exhaustedKeys = @ \cup {m.currentIndex}]

markExhaustedNoRotate(m) ==
    [km |-> AddExhausted(m), found |-> ~allExhausted(AddExhausted(m))]
\* markExhausted(): result.found is its return value
markExhausted(m) == rotateToNext(AddExhausted(m))

(***************************************************************************)
(* youtubeRequest                                                           *)
(***************************************************************************)
\* what one remote call can answer; status 0 stands for fetch() itself throwing
Responses ==
    { [status |-> 200, reason |-> ""],
      [status |-> 403, reason |-> "quotaExceeded"],
      [status |-> 403, reason |-> "dailyLimitExceeded"],
      [status |-> 403, reason |-> "forbidden"],
      [status |-> 500, reason |-> "quotaExceeded"],
      [status |-> 500, reason |-> ""],
      [status |-> 0, reason |-> ""] }

ResponseOk(o) == o.status >= 200 /\ o.status <= 299

IsQuotaSignalAny403(o) == o.status = 403
IsQuotaSignal(o) ==
    o.status = 403 /\ (o.reason = "quotaExceeded" \/ o.reason = "dailyLimitExceeded")

NoError == [attempt |-> -1, key |-> -1, outcome |-> [status |-> 200, reason |-> ""]]

\* a call of youtubeRequest at its first loop iteration
NewRequest(m) ==
    [km |-> m, maxRetries |-> m.keys, attempt |-> 0, status |-> "running",
     log |-> <<>>, error |-> NoError, startExhausted |-> allExhausted(m)]

NextAttemptNoCount(r) == r
\* attempt++ of the for loop, and the throw after the loop
NextAttempt(r) ==
    IF r.attempt + 1 < r.maxRetries
    THEN [r EXCEPT !.attempt = @ + 1]
    ELSE [r EXCEPT !.attempt = @ + 1, !.status = "Unexpected API request failure"]

\* the quota branch: markExhausted, throw when nothing is left, else continue
OnQuota(r) ==
    LET m == markExhausted(r.km) IN
    IF ~m.found
    THEN [r EXCEPT !.km = m.km, !.status = "ALL_KEYS_EXHAUSTED"]
    ELSE NextAttempt([r EXCEPT !.km = m.km])

OnOtherFailureRotating(r, entry) ==
    IF r.attempt = r.maxRetries - 1
    THEN [r EXCEPT !.status = "API Error", !.error = entry]
    ELSE NextAttempt([r EXCEPT !.km = rotateToNext(r.km).km])
\* the catch block for an error that is not ALL_KEYS_EXHAUSTED
OnOtherFailure(r, entry) ==
    IF r.attempt = r.maxRetries - 1
    THEN [r EXCEPT !.status = "API Error", !.error = entry]
    ELSE NextAttempt(r)

\* one iteration of the loop of youtubeRequest; o is what the remote answers
\* if the iteration gets to call it
Attempt(r, o) ==
    IF allExhausted(r.km)
    THEN [r EXCEPT !.status = "ALL_KEYS_EXHAUSTED"]
    ELSE LET entry == [attempt |-> r.attempt, key |-> r.km.currentIndex, outcome |-> o]
             called == [r EXCEPT !.log = Append(@, entry)]
         IN  IF ResponseOk(o) THEN [called EXCEPT !.status = "ok"]
             ELSE IF IsQuotaSignal(o) THEN OnQuota(called)
             ELSE OnOtherFailure(called, entry)

\* whether the iteration Attempt(r, _) issues a remote call
IssuesCall(r) == r.status = "running" /\ ~allExhausted(r.km)

\* the whole call, given the answers of the remote to its successive calls
RECURSIVE RunRequest(_, _)
RunRequest(r, outs) ==
    IF r.status # "running" THEN r
    ELSE IF ~IssuesCall(r) THEN Attempt(r, NoError.outcome)
    ELSE IF outs = <<>> THEN r
    ELSE RunRequest(Attempt(r, Head(outs)), Tail(outs))

\* the run of consecutive quota signals after the remote calls of log
RECURSIVE QuotaRunAfter(_, _)
QuotaRunAfter(q, log) ==
    IF log = <<>> THEN q
    ELSE QuotaRunAfter(IF IsQuotaSignal(Head(log).outcome) THEN q + 1 ELSE 0, Tail(log))

\* the answers a caller of youtubeRequest is checked against (a success, a
\* quota signal, a non-quota failure), as sequences that the call consumes whole
CallerResponses ==
    { [status |-> 200, reason |-> ""],
      [status |-> 403, reason |-> "quotaExceeded"],
      [status |-> 500, reason |-> ""] }
SeqsUpTo(S, n) == UNION {[1 .. k -> S] : k \in 0 .. n}
RequestRuns(m) ==
    { RunRequest(NewRequest(m), outs) : outs \in
        { o \in SeqsUpTo(CallerResponses, m.keys) :
            Len(RunRequest(NewRequest(m), o).log) = Len(o) } }

(***************************************************************************)
(* fetchPlaylistVideos                                                      *)
(***************************************************************************)
\* titles are sequences of UTF-16 code units
PrivateVideo == <<80, 114, 105, 118, 97, 116, 101, 32, 118, 105, 100, 101, 111>>
DeletedVideo == <<68, 101, 108, 101, 116, 101, 100, 32, 118, 105, 100, 101, 111>>
ArabicPrivateVideo == <<1601, 1610, 1583, 1610, 1608, 32, 1582, 1575, 1589>>
ArabicDeletedVideo == <<1601, 1610, 1583, 1610, 1608, 32, 1605, 1581, 1584, 1608, 1601>>
privateWord == <<112, 114, 105, 118, 97, 116, 101>>          \* 'private'
ShoutedPrivate == <<80, 82, 73, 86, 65, 84, 69>>             \* 'PRIVATE'
IntroTitle == <<73, 110, 116, 114, 111>>                     \* 'Intro'

\* String.prototype.toLowerCase on the letters A-Z
toLowerCase(t) == [i \in DOMAIN t |-> IF t[i] >= 65 /\ t[i] <= 90 THEN t[i] + 32 ELSE t[i]]
\* String.prototype.includes
includes(t, w) ==
    \E i \in 0 .. Len(t) - Len(w) : \A j \in 1 .. Len(w) : t[i + j] = w[j]

IsDroppedOnlyWithoutThumbnail(title, thumbnail) ==
    thumbnail = "" /\
    (\/ title = PrivateVideo
     \/ title = DeletedVideo
     \/ title = ArabicPrivateVideo
     \/ title = ArabicDeletedVideo
     \/ includes(toLowerCase(title), privateWord))
\* the condition under which an item of a page is not appended
IsDropped(title, thumbnail) ==
    \/ title = PrivateVideo
    \/ title = DeletedVideo
    \/ title = ArabicPrivateVideo
    \/ title = ArabicDeletedVideo
    \/ (thumbnail = "" /\ includes(toLowerCase(title), privateWord))

\* item.contentDetails?.videoId || item.snippet?.resourceId?.videoId (0: none)
VideoIdOf(item) == IF item.cdId # 0 THEN item.cdId ELSE item.ridId

\* the for loop over the items of one page
RECURSIVE CollectItems(_, _)
CollectItems(videos, items) ==
    IF items = <<>> THEN videos
    ELSE LET item == Head(items) IN
         IF VideoIdOf(item) = 0 THEN CollectItems(videos, Tail(items))
         ELSE IF IsDropped(item.title, item.thumbnail)
         THEN CollectItems(videos, Tail(items))
         ELSE CollectItems(
                 Append(videos, [id |-> VideoIdOf(item), title |-> item.title,
                                 thumbnail |-> item.thumbnail]),
                 Tail(items))

NoFetch == [status |-> "none", pageToken |-> 0, videos |-> <<>>, tokens |-> <<>>,
            raw |-> <<>>, error |-> "", calls |-> 0]
\* fetchPlaylistVideos at its entry: no videos, pageToken ''
NewFetch == [NoFetch EXCEPT !.status = "running"]

FetchIterationBreakOnError(f, r, data) ==
    LET sent == [f EXCEPT !.tokens = Append(@, f.pageToken),
                          !.calls = @ + Len(r.log)]
    IN  IF r.status # "ok"
        THEN [sent EXCEPT !.status = "returned", !.error = r.status]
        ELSE [sent EXCEPT !.videos = CollectItems(@, data.items),
                          !.raw = @ \o data.items,
                          !.pageToken = data.nextPageToken,
                          !.status = IF data.nextPageToken # 0 THEN "running"
                                     ELSE "returned"]
FetchIterationLastPageOnly(f, r, data) ==
    LET sent == [f EXCEPT !.tokens = Append(@, f.pageToken),
                          !.calls = @ + Len(r.log)]
    IN  IF r.status # "ok"
        THEN [sent EXCEPT !.status = "threw", !.error = r.status]
        ELSE [sent EXCEPT !.videos = CollectItems(<<>>, data.items),
                          !.raw = @ \o data.items,
                          !.pageToken = data.nextPageToken,
                          !.status = IF data.nextPageToken # 0 THEN "running"
                                     ELSE "returned"]
\* one iteration of the do-while loop: r is the finished youtubeRequest call,
\* data the body of its answer (items, nextPageToken; token 0 is none)
FetchIteration(f, r, data) ==
    LET sent == [f EXCEPT !.tokens = Append(@, f.pageToken),
                          !.calls = @ + Len(r.log)]
    IN  IF r.status # "ok"
        THEN [sent EXCEPT !.status = "threw", !.error = r.status]
        ELSE [sent EXCEPT !.videos = CollectItems(@, data.items),
                          !.raw = @ \o data.items,
                          !.pageToken = data.nextPageToken,
                          !.status = IF data.nextPageToken # 0 THEN "running"
                                     ELSE "returned"]

\* the raw items a remote page can hold; an item at position p of the
\* listing has video id p
RawTitles == {PrivateVideo, DeletedVideo, ArabicPrivateVideo, ArabicDeletedVideo,
              ShoutedPrivate, IntroTitle}
RawShapes ==
    [title : RawTitles, thumbnail : {"", "t"}, ids : {"contentDetails"}]
    \cup [title : {DeletedVideo, IntroTitle}, thumbnail : {"t"},
          ids : {"resourceId", "none"}]
PlaceItem(shape, p) ==
    [title |-> shape.title, thumbnail |-> shape.thumbnail,
     cdId |-> IF shape.ids = "contentDetails" THEN p ELSE 0,
     ridId |-> IF shape.ids = "resourceId" THEN p ELSE 0]
\* the bodies the remote can answer with after `served` items on earlier pages
PageBodies(served, pagesBefore) ==
    { [items |-> [i \in DOMAIN shapes |-> PlaceItem(shapes[i], served + i)],
       nextPageToken |-> next] :
        shapes \in SeqsUpTo(RawShapes, MaxItems - served),
        next \in IF pagesBefore + 1 < MaxPages THEN {0, pagesBefore + 1} ELSE {0} }

(***************************************************************************)
(* updateIndexFiles                                                         *)
(*                                                                          *)
(* A file is missing, malformed (JSON.parse throws) or holds JSON: then     *)
(* compact tells whether its bytes are what JSON.stringify(value) gives,    *)
(* and entries is the array it holds.  The channel file holds an object;    *)
(* isArray tells whether its playlists member is an array.                  *)
(***************************************************************************)
MissingFile == [kind |-> "missing", compact |-> FALSE, isArray |-> FALSE, entries |-> <<>>]
MalformedFile == [kind |-> "malformed", compact |-> FALSE, isArray |-> FALSE, entries |-> <<>>]
JsonFile(entries, compact) ==
    [kind |-> "json", compact |-> compact, isArray |-> TRUE, entries |-> entries]
\* a file that parses but whose writeFileSync throws
ReadOnlyFile(entries) == [JsonFile(entries, FALSE) EXCEPT !.kind = "readonly"]

existsSync(f) == f.kind # "missing"

findCategoryFileSubFirst(files, catName) ==
    IF existsSync(files.catSub[catName]) THEN "sub"
    ELSE IF existsSync(files.catMain[catName]) THEN "main"
    ELSE "none"
\* findCategoryFile: "main" before "sub", "none" when neither exists
findCategoryFile(files, catName) ==
    IF existsSync(files.catMain[catName]) THEN "main"
    ELSE IF existsSync(files.catSub[catName]) THEN "sub"
    ELSE "none"

\* the channelTitle lookup in channels.json
ChannelTitleOf(files, playlist) ==
    IF ~existsSync(files.channels) THEN "Unknown"
    ELSE IF files.channels.kind = "malformed" THEN "Unknown"
    ELSE IF \E i \in DOMAIN files.channels.entries :
               files.channels.entries[i].id = playlist.channelId
    THEN LET i == CHOOSE i \in DOMAIN files.channels.entries :
                     /\ files.channels.entries[i].id = playlist.channelId
                     /\ \A j \in 1 .. i - 1 :
                           files.channels.entries[j].id # playlist.channelId
         IN files.channels.entries[i].title
    ELSE "Unknown"

\* the indexEntry object; its path is data/playlists/<id>.json
IndexEntryOf(files, playlist) ==
    [id |-> playlist.id, title |-> playlist.title, thumbnail |-> playlist.thumbnail,
     videoCount |-> playlist.videoCount, channelId |-> playlist.channelId,
     channelTitle |-> ChannelTitleOf(files, playlist),
     categories |-> playlist.categories, path |-> playlist.id]

UpsertAtHead(entries, indexEntry) ==
    IF \E i \in DOMAIN entries : entries[i].id = indexEntry.id
    THEN [entries EXCEPT ![1] = indexEntry]
    ELSE Append(entries, indexEntry)
UpsertAlwaysPush(entries, indexEntry) == Append(entries, indexEntry)
\* findIndex by id, then replace at that index or push
Upsert(entries, indexEntry) ==
    IF \E i \in DOMAIN entries : entries[i].id = indexEntry.id
    THEN LET idx == CHOOSE i \in DOMAIN entries :
                       /\ entries[i].id = indexEntry.id
                       /\ \A j \in 1 .. i - 1 : entries[j].id # indexEntry.id
         IN [entries EXCEPT ![idx] = indexEntry]
    ELSE Append(entries, indexEntry)

\* JSON.parse, upsert, JSON.stringify, writeFileSync on an array file; a file
\* that does not parse, or cannot be written, makes the try block throw and
\* is left as it is
SyncArrayFile(f, indexEntry) ==
    IF f.kind # "json" THEN f
    ELSE JsonFile(Upsert(f.entries, indexEntry), TRUE)

\* the same on the channel file, written only if playlists is an array
SyncChannelFile(f, indexEntry) ==
    IF f.kind # "json" THEN f
    ELSE IF ~f.isArray THEN f
    ELSE JsonFile(Upsert(f.entries, indexEntry), TRUE)

\* the loop over playlist.categories
RECURSIVE SyncCategories(_, _, _)
SyncCategories(files, cats, indexEntry) ==
    IF cats = <<>> THEN files
    ELSE LET cat == Head(cats)
             where == findCategoryFile(files, cat)
             next ==
                 IF where = "main"
                 THEN [files EXCEPT !.catMain[cat] = SyncArrayFile(@, indexEntry)]
                 ELSE IF where = "sub"
                 THEN [files EXCEPT !.catSub[cat] = SyncArrayFile(@, indexEntry)]
                 ELSE files
         IN SyncCategories(next, Tail(cats), indexEntry)

updateIndexFilesOneTry(files, playlist) ==
    LET indexEntry == IndexEntryOf(files, playlist)
        Bad(f) == f.kind \in {"malformed", "readonly"}
        afterCats == SyncCategories(files, playlist.categories, indexEntry)
        catFailed == \E i \in DOMAIN playlist.categories :
                        LET cat == playlist.categories[i] IN
                        \/ findCategoryFile(files, cat) = "main" /\ Bad(files.catMain[cat])
                        \/ findCategoryFile(files, cat) = "sub" /\ Bad(files.catSub[cat])
        afterChannel ==
            IF ~catFailed /\ existsSync(afterCats.channelFile)
            THEN [afterCats EXCEPT !.channelFile = SyncChannelFile(@, indexEntry)]
            ELSE afterCats
    IN  IF ~catFailed /\ ~Bad(files.channelFile) /\ existsSync(afterChannel.unified)
        THEN [afterChannel EXCEPT !.unified = SyncArrayFile(@, indexEntry)]
        ELSE afterChannel
\* updateIndexFiles(playlist): the files after the call
updateIndexFiles(files, playlist) ==
    LET indexEntry == IndexEntryOf(files, playlist)
        afterCats == SyncCategories(files, playlist.categories, indexEntry)
        afterChannel ==
            IF existsSync(afterCats.channelFile)
            THEN [afterCats EXCEPT !.channelFile = SyncChannelFile(@, indexEntry)]
            ELSE afterCats
    IN  IF existsSync(afterChannel.unified)
        THEN [afterChannel EXCEPT !.unified = SyncArrayFile(@, indexEntry)]
        ELSE afterChannel

\* the category names: files of "c1" may exist, "c2" has no file anywhere
Categories == {"c1", "c2"}
\* entries found in the index files before the run: a stale one of playlist
\* P1, one of another playlist P2
StaleEntry ==
    [id |-> "P1", title |-> "old", thumbnail |-> "", videoCount |-> 1,
     channelId |-> "ch1", channelTitle |-> "Unknown", categories |-> <<>>, path |-> "P1"]
OtherEntry ==
    [id |-> "P2", title |-> "other", thumbnail |-> "t", videoCount |-> 1,
     channelId |-> "ch1", channelTitle |-> "Channel", categories |-> <<"c1">>, path |-> "P2"]
\* the files as the run finds them: not in the byte form JSON.stringify gives
ArrayFiles ==
    {MissingFile, MalformedFile, ReadOnlyFile(<<StaleEntry>>)}
    \cup {JsonFile(e, FALSE) : e \in SeqsUpTo({StaleEntry, OtherEntry}, MaxEntries)}
ChannelFiles ==
    ArrayFiles \cup {[JsonFile(<<>>, FALSE) EXCEPT !.isArray = FALSE]}
ChannelsJson ==
    {MissingFile, MalformedFile,
     JsonFile(<<[id |-> "ch1", title |-> "Channel"]>>, FALSE)}
FileStores ==
    { [channels |-> ch,
       catMain |-> [c \in Categories |-> IF c = "c1" THEN m ELSE MissingFile],
       catSub |-> [c \in Categories |-> IF c = "c1" THEN sb ELSE MissingFile],
       channelFile |-> cf, unified |-> u] :
        ch \in ChannelsJson, m \in ArrayFiles, sb \in ArrayFiles,
        cf \in ChannelFiles, u \in ArrayFiles }
NoFiles == [channels |-> MissingFile,
            catMain |-> [c \in Categories |-> MissingFile],
            catSub |-> [c \in Categories |-> MissingFile],
            channelFile |-> MissingFile, unified |-> MissingFile]
\* the playlist objects main passes to updateIndexFiles
Projections ==
    { [id |-> "P1", title |-> "new", thumbnail |-> "t", videoCount |-> 2,
       channelId |-> "ch1", categories |-> cats] :
        cats \in {<<>>, <<"c1">>, <<"c1", "c1">>, <<"c2", "c1">>} }
NoSync == [calls |-> 0, playlist |-> CHOOSE p \in Projections : p.categories = <<>>,
           before |-> NoFiles]

(***************************************************************************)
(* main: the disk, the remote, and the functions main calls                 *)
(***************************************************************************)
\* the ids of auto-update.json in the order of its keys
EntityOrder == <<"P1", "P2">>
EntityIds == {"P1", "P2"}

\* a member as the playlist files hold it
LocalVideo(k) == [id |-> 90 + k, title |-> IntroTitle, thumbnail |-> "t"]
LocalVideos(n) == [k \in 1 .. n |-> LocalVideo(k)]

\* a playlist file that parses, and one that does not
EntityFile(id, title, thumbnail, videoCount, videos) ==
    [kind |-> "json", id |-> id, title |-> title, thumbnail |-> thumbnail,
     videoCount |-> videoCount, channelId |-> "ch1", categories |-> <<"c1">>,
     videos |-> videos]
MalformedEntityFile(id) ==
    [EntityFile(id, "", "", 0, <<>>) EXCEPT !.kind = "malformed"]

\* an entry of auto-update.json with localId and localPath of an existing file
ManifestEntry(title, videoCount) ==
    [tracked |-> TRUE, title |-> title, videoCount |-> videoCount, channelId |-> "UC1"]
NoManifestEntry == [tracked |-> FALSE, title |-> "", videoCount |-> 0, channelId |-> ""]

\* readPlaylistsIndex: the entries whose explicit localId/localPath resolve, in
\* the order of the keys; the path of the file of playlist id is id
readPlaylistsIndex(d) ==
    LET Tracked(id) == d.manifest[id].tracked
        ids == SelectSeq(EntityOrder, Tracked)
    IN  [k \in DOMAIN ids |->
            [id |-> ids[k], localPath |-> ids[k], title |-> d.manifest[ids[k]].title,
             videoCount |-> d.manifest[ids[k]].videoCount,
             channelId |-> d.manifest[ids[k]].channelId]]

\* updateAutoUpdateList(playlistId, title, videoCount, channelId)
updateAutoUpdateList(d, playlistId, title, videoCount, channelId) ==
    IF d.manifest[playlistId].tracked
    THEN [d EXCEPT !.manifest[playlistId] =
             [@ EXCEPT !.title = title, !.videoCount = videoCount,
                       !.channelId = channelId]]
    ELSE d

\* the entry main appends to the log file of the day
WriteLog(d, total, needs, updated, failed, rows) ==
    [d EXCEPT !.log = Append(@, [total |-> total, needsUpdate |-> needs,
                                 updated |-> updated, failed |-> failed,
                                 rows |-> rows])]

NoSnapshot == [found |-> FALSE, title |-> "", thumbnail |-> "", channelId |-> "",
               videoCount |-> 0]
\* results.set(item.id, ...) for the items of one answer: the remote answers
\* with the playlists of the batch it holds
SnapshotsOfBatch(snaps, batch, rem) ==
    [id \in EntityIds |->
        IF (\E k \in DOMAIN batch : batch[k] = id) /\ rem[id].present
        THEN [found |-> TRUE, title |-> rem[id].title, thumbnail |-> rem[id].thumbnail,
              channelId |-> rem[id].channelId, videoCount |-> rem[id].videoCount]
        ELSE snaps[id]]

\* 50 in the source; here two playlists make two batches
BATCH_SIZE == 1
BatchAt(ids, i) ==
    SubSeq(ids, i + 1, IF i + BATCH_SIZE < Len(ids) THEN i + BATCH_SIZE ELSE Len(ids))

\* countChanged of main
CountChanged(snapshot, playlist) == snapshot.videoCount # playlist.videoCount

MetadataChangedTitleOnly(existingData, snapshot) ==
    existingData.title # snapshot.title
\* metadataChanged of main; String(x || '') of a missing field is ''
MetadataChanged(existingData, snapshot) ==
    \/ existingData.title # snapshot.title
    \/ existingData.thumbnail # snapshot.thumbnail

\* the loop that builds needsUpdate
RECURSIVE BuildNeedsUpdate(_, _, _, _)
BuildNeedsUpdate(d, snaps, playlists, acc) ==
    IF playlists = <<>> THEN acc
    ELSE LET playlist == Head(playlists)
             snapshot == snaps[playlist.id]
             existingData == d.files[playlist.localPath]
         IN  IF ~snapshot.found
             THEN BuildNeedsUpdate(d, snaps, Tail(playlists), acc)
             ELSE IF existingData.kind # "json"
             THEN BuildNeedsUpdate(d, snaps, Tail(playlists), acc)
             ELSE IF CountChanged(snapshot, playlist)
                     \/ MetadataChanged(existingData, snapshot)
             THEN BuildNeedsUpdate(d, snaps, Tail(playlists),
                     Append(acc,
                        [id |-> playlist.id, localPath |-> playlist.localPath,
                         title |-> playlist.title,
                         localCount |-> playlist.videoCount,
                         remoteCount |-> snapshot.videoCount,
                         channelId |-> playlist.channelId,
                         metadataChanged |-> MetadataChanged(existingData, snapshot),
                         countChanged |-> CountChanged(snapshot, playlist),
                         remote |-> snapshot]))
             ELSE BuildNeedsUpdate(d, snaps, Tail(playlists), acc)

NeedsRefetchAlways(pl) == TRUE
\* whether the update of pl walks the member pagination
NeedsRefetch(pl) == pl.countChanged

UpdatedPlaylistRemoteCount(existingData, pl, videos) ==
    [id |-> existingData.id, title |-> pl.remote.title,
     thumbnail |-> pl.remote.thumbnail,
     videoCount |-> pl.remote.videoCount,
     channelId |-> existingData.channelId, categories |-> existingData.categories,
     videos |-> videos]
\* the updatedPlaylist object
UpdatedPlaylist(existingData, pl, videos) ==
    [id |-> existingData.id, title |-> pl.remote.title,
     thumbnail |-> pl.remote.thumbnail,
     videoCount |-> IF pl.countChanged THEN Len(videos) ELSE pl.remote.videoCount,
     channelId |-> existingData.channelId, categories |-> existingData.categories,
     videos |-> videos]

\* writeFileSync of the playlist file, then updateAutoUpdateList
PersistUpdate(d, pl, updated) ==
    updateAutoUpdateList(
        [d EXCEPT !.files[pl.localPath] =
            EntityFile(updated.id, updated.title, updated.thumbnail,
                       updated.videoCount, updated.videos)],
        pl.id, updated.title, Len(updated.videos),
        IF pl.remote.channelId # "" THEN pl.remote.channelId ELSE pl.channelId)

\* the bodies the remote answers with when it lists the `total` members of a
\* playlist: the last page carries no token
MainShapes ==
    {sh \in RawShapes : /\ sh.ids = "contentDetails"
                        /\ sh.thumbnail = "t"
                        /\ sh.title \in {IntroTitle, DeletedVideo}}
ListingBodies(served, pagesBefore, total) ==
    { [items |-> [i \in DOMAIN shapes |-> PlaceItem(shapes[i], served + i)],
       nextPageToken |-> IF served + Len(shapes) < total THEN pagesBefore + 1 ELSE 0] :
        shapes \in
            { sq \in SeqsUpTo(MainShapes, total - served) :
                pagesBefore + 1 >= MaxPages => Len(sq) = total - served } }

(***************************************************************************)
(* main: its state                                                          *)
(***************************************************************************)
NoDisk == [manifest |-> [id \in EntityIds |-> NoManifestEntry],
           files |-> [id \in EntityIds |-> MalformedEntityFile(id)],
           log |-> <<>>]
NoRemote == [id \in EntityIds |->
                [present |-> FALSE, title |-> "", thumbnail |-> "",
                 channelId |-> "", videoCount |-> 0]]
NoSnapshots == [id \in EntityIds |-> NoSnapshot]
\* main before its first statement; start keeps the disk and the index files
\* as the run found them
NewMain(d, files) ==
    [pc |-> "start", localPlaylists |-> <<>>, batch |-> 0, snapshots |-> NoSnapshots,
     needsUpdate |-> <<>>, i |-> 0, successCount |-> 0, failCount |-> 0,
     logEntries |-> <<>>, exitCode |-> 0,
     pageRequests |-> [id \in EntityIds |-> 0],
     outcome |-> [id \in EntityIds |-> "none"],
     start |-> [disk |-> d, fs |-> files]]
NoMain == [NewMain(NoDisk, NoFiles) EXCEPT !.pc = "none"]

\* what a run finds on disk: the playlists P1, or P1 and P2, or none are in
\* auto-update.json; a playlist file is malformed, or in step with its entry
\* of auto-update.json as to the member count
LocalStates ==
    [count : 1 .. MaxCount,
     shape : {"synced", "old title", "no thumbnail", "malformed"}]
LocalFile(id, l) ==
    IF l.shape = "malformed" THEN MalformedEntityFile(id)
    ELSE EntityFile(id, IF l.shape = "old title" THEN "old" ELSE "new",
                    IF l.shape = "no thumbnail" THEN "" ELSE "t",
                    l.count, LocalVideos(l.count))
Disks ==
    { [manifest |-> [id \in EntityIds |->
                       IF id \in tracked THEN ManifestEntry("new", l[id].count)
                       ELSE NoManifestEntry],
       files |-> [id \in EntityIds |-> LocalFile(id, l[id])],
       log |-> <<>>] :
        tracked \in {{}, {"P1"}, {"P1", "P2"}},
        l \in [EntityIds -> LocalStates] }
\* what the remote holds: a playlist is gone, or has title 'new', a
\* thumbnail, and 1..MaxCount members
RemoteStates ==
    {NoRemote["P1"]}
    \cup {[present |-> TRUE, title |-> "new", thumbnail |-> "t", channelId |-> "UC1",
           videoCount |-> n] : n \in 1 .. MaxCount}
\* the index files a run of main finds
MainFileStores ==
    {NoFiles} \cup
    {f \in FileStores :
        /\ f.channels.kind = "json"
        /\ f.catMain["c1"] = JsonFile(<<StaleEntry, OtherEntry>>, FALSE)
        /\ f.catSub["c1"] = MissingFile
        /\ f.channelFile = JsonFile(<<OtherEntry>>, FALSE)
        /\ f.unified = JsonFile(<<OtherEntry, StaleEntry>>, FALSE)} \cup
    {f \in FileStores :
        /\ f.channels.kind = "json"
        /\ f.catMain["c1"] = JsonFile(<<OtherEntry>>, FALSE)
        /\ f.catSub["c1"] = JsonFile(<<StaleEntry>>, FALSE)
        /\ f.channelFile = JsonFile(<<StaleEntry>>, FALSE)
        /\ f.unified = MalformedFile}

(***************************************************************************)
(* The directory-scan updater (src/unnamed/part_001): rotateKey,            *)
(* fetchPlaylistVideos and the update loop of its main                      *)
(***************************************************************************)
\* rotateKey(): result.ok is its return value
rotateKey(l) ==
    IF l.keys <= 1 THEN [l |-> l, ok |-> FALSE]
    ELSE [l |-> [l EXCEPT !.currentKeyIndex = (@ + 1) % l.keys], ok |-> TRUE]

\* what a call of the googleapis client can do: answer, throw a quota error
\* (isQuotaError), throw another error
LegacyOutcomes == {"ok", "quota", "error"}

\* the pages a listing can have: no item, an ordinary item, a removed one;
\* the item of page k has video id k
LegacyPages == {<<>>, <<IntroTitle>>, <<DeletedVideo>>}
LegacyListings ==
    UNION {[1 .. n -> LegacyPages] : n \in 1 .. MaxLegacyPages}
\* the file of the playlist as the run finds it
LegacyFile == [videos |-> <<[id |-> 90, title |-> IntroTitle, duration |-> "d"]>>,
               videoCount |-> 1]

NoLegacy == [keys |-> 1, currentKeyIndex |-> 0, pc |-> "none", retries |-> 0,
             page |-> 1, videos |-> <<>>, listing |-> <<<<>>>>, file |-> LegacyFile,
             runs |-> 0, quotaThrows |-> 0]

\* main: data.videos = videos; data.videoCount = videos.length; writeJson
LegacyWrite(l) ==
    [l EXCEPT !.file = [videos |-> l.videos, videoCount |-> Len(l.videos)],
              !.pc = "written"]
\* main: the catch of the update loop
LegacyFail(l) == [l EXCEPT !.pc = "failed"]

\* `if (!response) break` and the return of the videos collected so far
LegacyNoResponse(l) == LegacyWrite(l)

\* the titles of the items fetchPlaylistVideos skips
LegacyRemovedTitles ==
    {PrivateVideo, DeletedVideo, ArabicPrivateVideo, ArabicDeletedVideo}
\* the for loop over the items of the page, then pageToken and the do-while
\* test; duration is what durationsMap gives for the video of the page
LegacyCollect(l, duration) ==
    LET items == l.listing[l.page]
        kept == SelectSeq(items, LAMBDA t : t \notin LegacyRemovedTitles)
        pushed == l.videos \o [i \in DOMAIN kept |->
                                 [id |-> l.page, title |-> kept[i], duration |-> duration]]
        collected == [l EXCEPT !.videos = pushed]
    IN  IF l.page < Len(l.listing)
        THEN [collected EXCEPT !.page = @ + 1, !.pc = "list", !.retries = l.keys]
        ELSE LegacyWrite(collected)

\* one turn of the while loop around playlistItems.list
LegacyListTurn(l, outcome) ==
    IF outcome = "ok"
    THEN IF l.listing[l.page] # <<>>
         THEN [l EXCEPT !.pc = "durations", !.retries = l.keys]
         ELSE LegacyCollect(l, "00:00")
    ELSE IF outcome = "quota" /\ rotateKey(l).ok
    THEN LET rotated == [rotateKey(l).l EXCEPT !.retries = @ - 1,
                                              !.quotaThrows = @ + 1]
         IN  IF rotated.retries > 0 THEN rotated ELSE LegacyNoResponse(rotated)
    ELSE LegacyFail(l)

\* one turn of the while loop around videos.list
LegacyDurationsTurn(l, outcome) ==
    IF outcome = "ok" THEN LegacyCollect(l, "d")
    ELSE IF outcome = "quota" /\ rotateKey(l).ok
    THEN LET rotated == [rotateKey(l).l EXCEPT !.retries = @ - 1]
         IN  IF rotated.retries > 0 THEN rotated ELSE LegacyCollect(rotated, "00:00")
    ELSE LegacyCollect(l, "00:00")

(***************************************************************************)
(* Specification Spec: one ApiKeyManager serving successive youtubeRequest  *)
(* calls, one loop iteration per step.                                      *)
(***************************************************************************)
Idle == [km |-> NewKeyManager(1), maxRetries |-> 0, attempt |-> 0, status |-> "none",
         log |-> <<>>, error |-> NoError, startExhausted |-> FALSE]
NoRot == [op |-> "none", before |-> NewKeyManager(1), found |-> FALSE, n |-> 0]

Init ==
    /\ \E n \in 1 .. MaxKeys : km = NewKeyManager(n)
    /\ req = Idle
    /\ reqCount = 0
    /\ quotaRun = 0
    /\ sawAllExhausted = FALSE
    /\ rot = NoRot
    /\ fp = NoFetch
    /\ fs = NoFiles
    /\ ix = NoSync
    /\ disk = NoDisk
    /\ remote = NoRemote
    /\ mp = NoMain
    /\ lg = NoLegacy

StartRequest ==
    /\ req.status # "running"
    /\ reqCount < MaxRequests
    /\ req' = NewRequest(km)
    /\ reqCount' = reqCount + 1
    /\ sawAllExhausted' = (sawAllExhausted \/ allExhausted(km))
    /\ UNCHANGED <<km, quotaRun, rot, fp, fs, ix, mainVars, lg>>

DoAttempt ==
    /\ req.status = "running"
    /\ \E o \in Responses :
         LET r == Attempt(req, o) IN
         /\ req' = r
         /\ km' = r.km
         /\ quotaRun' = IF ~IssuesCall(req) THEN quotaRun
                        ELSE IF IsQuotaSignal(o) THEN quotaRun + 1 ELSE 0
         /\ sawAllExhausted' = (sawAllExhausted \/ allExhausted(km))
    /\ UNCHANGED <<reqCount, rot, fp, fs, ix, mainVars, lg>>

Next == StartRequest \/ DoAttempt

Spec == Init /\ [][Next]_vars

(***************************************************************************)
(* Specification SpecRotator: the methods of one ApiKeyManager called       *)
(* directly, in any order.  rot.before is the manager as rotateToNext       *)
(* found it, rot.found what rotateToNext returned.                          *)
(***************************************************************************)
CallRotateToNext ==
    /\ rot.n < MaxOps
    /\ LET res == rotateToNext(km) IN
       /\ km' = res.km
       /\ rot' = [op |-> "rotateToNext", before |-> km, found |-> res.found,
                  n |-> rot.n + 1]
    /\ UNCHANGED <<reqVars, fp, fs, ix, mainVars, lg>>

CallMarkExhausted ==
    /\ rot.n < MaxOps
    /\ LET res == markExhausted(km) IN
       /\ km' = res.km
       /\ rot' = [op |-> "markExhausted", before |-> AddExhausted(km),
                  found |-> res.found, n |-> rot.n + 1]
    /\ UNCHANGED <<reqVars, fp, fs, ix, mainVars, lg>>

NextRotator == CallRotateToNext \/ CallMarkExhausted

SpecRotator == Init /\ [][NextRotator]_vars

(***************************************************************************)
(* Specification SpecFetch: fetchPlaylistVideos called again and again on   *)
(* one ApiKeyManager, one iteration of its do-while loop per step.          *)
(***************************************************************************)
FetchStart ==
    /\ fp.status # "running"
    /\ reqCount < MaxRequests
    /\ fp' = NewFetch
    /\ UNCHANGED <<km, reqVars, rot, fs, ix, mainVars, lg>>

FetchPage ==
    /\ fp.status = "running"
    /\ reqCount < MaxRequests
    /\ \E r \in RequestRuns(km) :
       \E data \in IF r.status = "ok" THEN PageBodies(Len(fp.raw), Len(fp.tokens))
                    ELSE {[items |-> <<>>, nextPageToken |-> 0]} :
         /\ fp' = FetchIteration(fp, r, data)
         /\ km' = r.km
         /\ req' = r
         /\ reqCount' = reqCount + 1
         /\ quotaRun' = QuotaRunAfter(quotaRun, r.log)
         /\ sawAllExhausted' = (sawAllExhausted \/ allExhausted(km))
    /\ UNCHANGED <<rot, fs, ix, mainVars, lg>>

NextFetch == FetchStart \/ FetchPage

SpecFetch == Init /\ [][NextFetch]_vars

(***************************************************************************)
(* Specification SpecIndex: updateIndexFiles called repeatedly with one     *)
(* playlist object on any index files.                                      *)
(***************************************************************************)
InitIndex ==
    /\ km = NewKeyManager(1)
    /\ req = Idle
    /\ reqCount = 0
    /\ quotaRun = 0
    /\ sawAllExhausted = FALSE
    /\ rot = NoRot
    /\ fp = NoFetch
    /\ fs \in FileStores
    /\ \E p \in Projections : ix = [calls |-> 0, playlist |-> p, before |-> fs]
    /\ disk = NoDisk
    /\ remote = NoRemote
    /\ mp = NoMain
    /\ lg = NoLegacy

CallUpdateIndexFiles ==
    /\ ix.calls < MaxSyncs
    /\ fs' = updateIndexFiles(fs, ix.playlist)
    /\ ix' = [ix EXCEPT !.calls = @ + 1, !.before = fs]
    /\ UNCHANGED <<km, reqVars, rot, fp, mainVars, lg>>

NextIndex == CallUpdateIndexFiles

SpecIndex == InitIndex /\ [][NextIndex]_vars

(***************************************************************************)
(* Specification SpecMain: one run of main, a step per youtubeRequest call  *)
(* it awaits and per stretch of code between two of them.                   *)
(***************************************************************************)
InitMain ==
    /\ \E n \in 1 .. MaxMainKeys : km = NewKeyManager(n)
    /\ req = Idle
    /\ reqCount = 0
    /\ quotaRun = 0
    /\ sawAllExhausted = FALSE
    /\ rot = NoRot
    /\ fp = NoFetch
    /\ fs \in MainFileStores
    /\ ix = NoSync
    /\ disk \in Disks
    /\ remote \in [EntityIds -> RemoteStates]
    /\ mp = NewMain(disk, fs)
    /\ lg = NoLegacy

\* readPlaylistsIndex and the early return of main
MainStart ==
    /\ mp.pc = "start"
    /\ LET localPlaylists == readPlaylistsIndex(disk) IN
       mp' = [mp EXCEPT !.localPlaylists = localPlaylists,
                        !.pc = IF Len(localPlaylists) = 0 THEN "done" ELSE "scan"]
    /\ UNCHANGED <<km, reqVars, rot, fp, fs, ix, disk, remote, lg>>

MainScanBatchSwallowing ==
    /\ mp.pc = "scan"
    /\ LET after == IF mp.batch + BATCH_SIZE < Len(mp.localPlaylists) THEN "scan"
                    ELSE "classify"
       IN  \E r \in RequestRuns(km) :
             /\ km' = r.km
             /\ req' = r
             /\ mp' = [mp EXCEPT !.batch = @ + BATCH_SIZE, !.pc = after]
    /\ UNCHANGED <<reqCount, quotaRun, sawAllExhausted, rot, fp, fs, ix, disk, remote, lg>>
MainScanBatchStopping ==
    /\ mp.pc = "scan"
    /\ LET playlistIds == [k \in DOMAIN mp.localPlaylists |-> mp.localPlaylists[k].id]
           batch == BatchAt(playlistIds, mp.batch)
           after == IF mp.batch + BATCH_SIZE < Len(playlistIds) THEN "scan"
                    ELSE "classify"
       IN  \E r \in RequestRuns(km) :
             /\ km' = r.km
             /\ req' = r
             /\ mp' = IF r.status = "ok"
                      THEN [mp EXCEPT !.snapshots = SnapshotsOfBatch(@, batch, remote),
                                      !.batch = @ + BATCH_SIZE, !.pc = after]
                      ELSE IF r.status = "ALL_KEYS_EXHAUSTED"
                      THEN [mp EXCEPT !.pc = "exited", !.exitCode = 1]
                      ELSE [mp EXCEPT !.batch = Len(playlistIds), !.pc = "classify"]
    /\ UNCHANGED <<reqCount, quotaRun, sawAllExhausted, rot, fp, fs, ix, disk, remote, lg>>
\* one iteration of the loop of getBatchedRemoteSnapshots, and after the
\* last one the catch of main around the call
MainScanBatch ==
    /\ mp.pc = "scan"
    /\ LET playlistIds == [k \in DOMAIN mp.localPlaylists |-> mp.localPlaylists[k].id]
           batch == BatchAt(playlistIds, mp.batch)
           after == IF mp.batch + BATCH_SIZE < Len(playlistIds) THEN "scan"
                    ELSE "classify"
       IN  \E r \in RequestRuns(km) :
             /\ km' = r.km
             /\ req' = r
             /\ mp' = IF r.status = "ok"
                      THEN [mp EXCEPT !.snapshots = SnapshotsOfBatch(@, batch, remote),
                                      !.batch = @ + BATCH_SIZE, !.pc = after]
                      ELSE IF r.status = "ALL_KEYS_EXHAUSTED"
                      THEN [mp EXCEPT !.pc = "exited", !.exitCode = 1]
                      ELSE [mp EXCEPT !.batch = @ + BATCH_SIZE, !.pc = after]
    /\ UNCHANGED <<reqCount, quotaRun, sawAllExhausted, rot, fp, fs, ix, disk, remote, lg>>

\* the loop that builds needsUpdate, and the return when it stays empty
MainClassify ==
    /\ mp.pc = "classify"
    /\ LET needsUpdate == BuildNeedsUpdate(disk, mp.snapshots, mp.localPlaylists, <<>>)
       IN  IF Len(needsUpdate) = 0
           THEN /\ disk' = WriteLog(disk, Len(mp.localPlaylists), 0, 0, 0, <<>>)
                /\ mp' = [mp EXCEPT !.pc = "done"]
           ELSE /\ mp' = [mp EXCEPT !.needsUpdate = needsUpdate, !.i = 1,
                                    !.pc = "update"]
                /\ UNCHANGED disk
    /\ UNCHANGED <<km, reqVars, rot, fp, fs, ix, remote, lg>>

FinishUpdateNoLog(m, d, files, pl, existingData, videos) ==
    LET updatedPlaylist == UpdatedPlaylist(existingData, pl, videos)
    IN  [disk |-> PersistUpdate(d, pl, updatedPlaylist),
         fs |-> updateIndexFiles(files, updatedPlaylist),
         mp |-> [m EXCEPT !.successCount = @ + 1,
                          !.outcome[pl.id] = "updated",
                          !.i = @ + 1,
                          !.pc = IF m.i + 1 > Len(m.needsUpdate) THEN "report"
                                 ELSE "update"]]
\* the body of the update loop from `const updatedPlaylist` to logEntries.push
FinishUpdate(m, d, files, pl, existingData, videos) ==
    LET updatedPlaylist == UpdatedPlaylist(existingData, pl, videos)
        newCount == IF pl.countChanged THEN Len(videos) ELSE pl.remote.videoCount
    IN  [disk |-> PersistUpdate(d, pl, updatedPlaylist),
         fs |-> updateIndexFiles(files, updatedPlaylist),
         mp |-> [m EXCEPT !.successCount = @ + 1,
                          !.logEntries = Append(@, [id |-> pl.id, title |-> pl.title,
                                                    before |-> pl.localCount,
                                                    after |-> newCount]),
                          !.outcome[pl.id] = "updated",
                          !.i = @ + 1,
                          !.pc = IF m.i + 1 > Len(m.needsUpdate) THEN "report"
                                 ELSE "update"]]

FailUpdateRetrying(m, pl) == [m EXCEPT !.pc = "update"]
\* the catch of the update loop for an error other than ALL_KEYS_EXHAUSTED
FailUpdate(m, pl) ==
    [m EXCEPT !.failCount = @ + 1, !.outcome[pl.id] = "failed", !.i = @ + 1,
              !.pc = IF m.i + 1 > Len(m.needsUpdate) THEN "report" ELSE "update"]

\* an iteration of the update loop up to its first await: a metadata-only
\* update runs to its end
MainUpdate ==
    /\ mp.pc = "update"
    /\ LET pl == mp.needsUpdate[mp.i]
           existingData == disk.files[pl.localPath]
       IN  IF existingData.kind # "json"
           THEN /\ mp' = FailUpdate(mp, pl)
                /\ UNCHANGED <<disk, fs, fp>>
           ELSE IF NeedsRefetch(pl)
           THEN /\ mp' = [mp EXCEPT !.pc = "fetch"]
                /\ fp' = NewFetch
                /\ UNCHANGED <<disk, fs>>
           ELSE LET res == FinishUpdate(mp, disk, fs, pl, existingData,
                                        existingData.videos)
                IN  /\ mp' = res.mp
                    /\ disk' = res.disk
                    /\ fs' = res.fs
                    /\ UNCHANGED fp
    /\ UNCHANGED <<km, reqVars, rot, ix, remote, lg>>

MainFetchPageContinuing ==
    /\ mp.pc = "fetch"
    /\ LET pl == mp.needsUpdate[mp.i]
           asked == [mp EXCEPT !.pageRequests[pl.id] = @ + 1]
       IN  \E r \in RequestRuns(km) :
           \E data \in IF r.status = "ok"
                       THEN ListingBodies(Len(fp.raw), Len(fp.tokens), pl.remoteCount)
                       ELSE {[items |-> <<>>, nextPageToken |-> 0]} :
             LET f == FetchIteration(fp, r, data) IN
             /\ km' = r.km
             /\ req' = r
             /\ fp' = f
             /\ IF f.status = "running"
                THEN /\ mp' = asked
                     /\ UNCHANGED <<disk, fs>>
                ELSE IF f.status = "returned"
                THEN LET res == FinishUpdate(asked, disk, fs, pl,
                                             disk.files[pl.localPath], f.videos)
                     IN  /\ mp' = res.mp
                         /\ disk' = res.disk
                         /\ fs' = res.fs
                ELSE /\ mp' = FailUpdate(asked, pl)
                     /\ UNCHANGED <<disk, fs>>
    /\ UNCHANGED <<reqCount, quotaRun, sawAllExhausted, rot, ix, remote, lg>>
\* one iteration of the do-while loop of fetchPlaylistVideos called by main,
\* and when it returns or throws the rest of the iteration of the update loop
MainFetchPage ==
    /\ mp.pc = "fetch"
    /\ LET pl == mp.needsUpdate[mp.i]
           asked == [mp EXCEPT !.pageRequests[pl.id] = @ + 1]
       IN  \E r \in RequestRuns(km) :
           \E data \in IF r.status = "ok"
                       THEN ListingBodies(Len(fp.raw), Len(fp.tokens), pl.remoteCount)
                       ELSE {[items |-> <<>>, nextPageToken |-> 0]} :
             LET f == FetchIteration(fp, r, data) IN
             /\ km' = r.km
             /\ req' = r
             /\ fp' = f
             /\ IF f.status = "running"
                THEN /\ mp' = asked
                     /\ UNCHANGED <<disk, fs>>
                ELSE IF f.status = "returned"
                THEN LET res == FinishUpdate(asked, disk, fs, pl,
                                             disk.files[pl.localPath], f.videos)
                     IN  /\ mp' = res.mp
                         /\ disk' = res.disk
                         /\ fs' = res.fs
                ELSE IF f.error = "ALL_KEYS_EXHAUSTED"
                THEN /\ mp' = [asked EXCEPT !.pc = "report",
                                            !.outcome[pl.id] = "stopped"]
                     /\ UNCHANGED <<disk, fs>>
                ELSE /\ mp' = FailUpdate(asked, pl)
                     /\ UNCHANGED <<disk, fs>>
    /\ UNCHANGED <<reqCount, quotaRun, sawAllExhausted, rot, ix, remote, lg>>

MainReportExitOnAnyFailure ==
    /\ mp.pc = "report"
    /\ disk' = WriteLog(disk, Len(mp.localPlaylists), Len(mp.needsUpdate),
                        mp.successCount, mp.failCount, mp.logEntries)
    /\ mp' = [mp EXCEPT !.pc = IF mp.failCount > 0 THEN "exited" ELSE "done",
                        !.exitCode = IF mp.failCount > 0 THEN 1 ELSE 0]
    /\ UNCHANGED <<km, reqVars, rot, fp, fs, ix, remote, lg>>
\* the summary, the log file and the exit code
MainReport ==
    /\ mp.pc = "report"
    /\ disk' = WriteLog(disk, Len(mp.localPlaylists), Len(mp.needsUpdate),
                        mp.successCount, mp.failCount, mp.logEntries)
    /\ mp' = [mp EXCEPT !.pc = IF mp.failCount > 0 /\ mp.successCount = 0
                               THEN "exited" ELSE "done",
                        !.exitCode = IF mp.failCount > 0 /\ mp.successCount = 0
                                     THEN 1 ELSE 0]
    /\ UNCHANGED <<km, reqVars, rot, fp, fs, ix, remote, lg>>

NextMain ==
    \/ MainStart
    \/ MainScanBatch
    \/ MainClassify
    \/ MainUpdate
    \/ MainFetchPage
    \/ MainReport

SpecMain == InitMain /\ [][NextMain]_vars

(***************************************************************************)
(* Specification SpecLegacy: the directory-scan updater updating playlists  *)
(* one after the other, a step per call of the googleapis client.           *)
(***************************************************************************)
InitLegacy ==
    /\ km = NewKeyManager(1)
    /\ req = Idle
    /\ reqCount = 0
    /\ quotaRun = 0
    /\ sawAllExhausted = FALSE
    /\ rot = NoRot
    /\ fp = NoFetch
    /\ fs = NoFiles
    /\ ix = NoSync
    /\ disk = NoDisk
    /\ remote = NoRemote
    /\ mp = NoMain
    /\ \E n \in 1 .. MaxLegacyKeys : lg = [NoLegacy EXCEPT !.keys = n]

\* an iteration of the update loop of main up to the first call of
\* fetchPlaylistVideos, for a playlist whose listing is `listing`
LegacyStartUpdate ==
    /\ lg.pc \in {"none", "written", "failed"}
    /\ lg.runs < MaxLegacyRuns
    /\ \E listing \in LegacyListings :
         lg' = [lg EXCEPT !.pc = "list", !.retries = lg.keys, !.page = 1,
                          !.videos = <<>>, !.listing = listing, !.file = LegacyFile,
                          !.runs = @ + 1, !.quotaThrows = 0]
    /\ UNCHANGED <<km, reqVars, rot, fp, fs, ix, mainVars>>

LegacyList ==
    /\ lg.pc = "list"
    /\ \E outcome \in LegacyOutcomes : lg' = LegacyListTurn(lg, outcome)
    /\ UNCHANGED <<km, reqVars, rot, fp, fs, ix, mainVars>>

LegacyDurations ==
    /\ lg.pc = "durations"
    /\ \E outcome \in LegacyOutcomes : lg' = LegacyDurationsTurn(lg, outcome)
    /\ UNCHANGED <<km, reqVars, rot, fp, fs, ix, mainVars>>

NextLegacy == LegacyStartUpdate \/ LegacyList \/ LegacyDurations

SpecLegacy == InitLegacy /\ [][NextLegacy]_vars

\* main runs on: a step that can be taken is taken (every awaited call
\* settles, the event loop goes on)
SpecMainFair == SpecMain /\ WF_vars(NextMain)

(***************************************************************************)
(* Claims about ApiKeyManager and youtubeRequest (specification Spec).      *)
(***************************************************************************)
Finished(r) == r.status \notin {"none", "running"}
Failed(r) == Finished(r) /\ r.status # "ok"
OtherFailure(o) == ~ResponseOk(o) /\ ~IsQuotaSignal(o)
LastEntry(r) == r.log[Len(r.log)]

\* C1: after as many consecutive quota-exceeded signals as there are
\* credentials, allExhausted is true and stays true, and every request
\* started from then on ends with ALL_KEYS_EXHAUSTED without a remote call.
C1_RotationExhausts ==
    /\ quotaRun >= km.keys => allExhausted(km)
    /\ sawAllExhausted => allExhausted(km)
    /\ (req.status = "running" /\ req.attempt = 0 /\ req.log = <<>> /\ allExhausted(km))
           => req.startExhausted
    /\ (req.status # "none" /\ req.startExhausted)
           => /\ req.log = <<>>
              /\ req.status \in {"running", "ALL_KEYS_EXHAUSTED"}

C1_Witness ==
    /\ km.keys >= 2
    /\ quotaRun = km.keys
    /\ reqCount >= 2
    /\ req.startExhausted
    /\ req.status = "ALL_KEYS_EXHAUSTED"
    /\ req.log = <<>>

\* C2: a failing youtubeRequest fails either with ALL_KEYS_EXHAUSTED while
\* every credential is marked exhausted, or with the non-quota error of its
\* last attempt; it fails with no other error.
C2_FailsOnlyExhaustedOrLastError ==
    Failed(req) =>
        \/ req.status = "ALL_KEYS_EXHAUSTED" /\ allExhausted(km)
        \/ /\ req.status = "API Error"
           /\ req.log # <<>>
           /\ req.error = LastEntry(req)
           /\ OtherFailure(LastEntry(req).outcome)

\* C3: a non-quota failure before the last permitted attempt is followed by
\* the next attempt with the same credential; a non-quota failure on attempt
\* maxRetries-1 ends the call with that very error.
C3_OtherFailureRetriedThenThrown ==
    /\ \A i \in DOMAIN req.log :
         OtherFailure(req.log[i].outcome) =>
            IF req.log[i].attempt < req.maxRetries - 1
            THEN IF i < Len(req.log)
                 THEN /\ req.log[i + 1].key = req.log[i].key
                      /\ req.log[i + 1].attempt = req.log[i].attempt + 1
                 ELSE /\ req.status = "running"
                      /\ req.attempt = req.log[i].attempt + 1
                      /\ km.currentIndex = req.log[i].key
                      /\ ~allExhausted(km)
            ELSE /\ i = Len(req.log)
                 /\ req.status = "API Error"
                 /\ req.error = req.log[i]
    /\ req.status = "API Error" =>
         /\ req.log # <<>>
         /\ req.error = LastEntry(req)
         /\ LastEntry(req).attempt = req.maxRetries - 1

C3_Witness ==
    /\ km.keys = 3
    /\ Len(req.log) = 3
    /\ \A i \in 1 .. 3 : OtherFailure(req.log[i].outcome) /\ req.log[i].key = 0
    /\ req.status = "API Error"
    /\ req.error = req.log[3]

\* C4: one youtubeRequest call issues at most maxRetries = keys.length
\* remote calls.
C4_AtMostPoolSizeCalls == Len(req.log) <= km.keys

C4_Witness ==
    /\ km.keys >= 2
    /\ Len(req.log) = km.keys
    /\ Finished(req)
    /\ reqCount >= 2

\* C5 as stated: within one call no credential is used for two remote calls.
C5_EachKeyUsedOnce ==
    \A i, j \in DOMAIN req.log : i # j => req.log[i].key # req.log[j].key

\* C5 amended: within one call a credential is used again only to retry
\* after a non-quota failure on it; a credential that answered with a quota
\* signal (or success) gets no further remote call in that call.
C5_KeyReusedOnlyAfterOtherFailure ==
    \A i, j \in DOMAIN req.log :
        (i < j /\ req.log[i].key = req.log[j].key) =>
            \A k \in i .. j - 1 :
                /\ OtherFailure(req.log[k].outcome)
                /\ req.log[k].key = req.log[i].key

C5_Witness ==
    /\ Len(req.log) >= 3
    /\ req.log[1].key = req.log[2].key
    /\ IsQuotaSignal(req.log[2].outcome)
    /\ req.log[3].key # req.log[2].key

(***************************************************************************)
(* Claims about rotateToNext (specification SpecRotator).                   *)
(***************************************************************************)
Unexhausted(m) == (0 .. m.keys - 1) \ m.exhaustedKeys
\* how many steps after index c the circular scan meets index k (1 .. keys)
ScanDistance(m, k) == ((k - m.currentIndex - 1 + m.keys) % m.keys) + 1
MinOf(S) == CHOOSE k \in S : \A j \in S : k <= j

\* C6 as stated: the credential rotateToNext makes active is the
\* lowest-index unexhausted credential.
C6_RotatesToLowestIndex ==
    (rot.op # "none" /\ rot.found) =>
        km.currentIndex = MinOf(Unexhausted(rot.before))

\* C6 amended: rotateToNext makes active the first unexhausted credential of
\* the circular scan c+1, c+2, ..., c, that is the lowest-index unexhausted
\* credential above c or, when there is none above c, the lowest-index
\* unexhausted credential overall; it returns true iff some credential is
\* unexhausted, and when it returns false the manager is unchanged.
C6_RotatesToFirstInCircularScan ==
    rot.op # "none" =>
        LET b == rot.before
            above == {k \in Unexhausted(b) : k > b.currentIndex}
        IN  /\ rot.found <=> Unexhausted(b) # {}
            /\ km.exhaustedKeys = b.exhaustedKeys
            /\ km.keys = b.keys
            /\ ~rot.found => km.currentIndex = b.currentIndex
            /\ rot.found =>
                 /\ km.currentIndex \in Unexhausted(b)
                 /\ \A k \in Unexhausted(b) :
                       ScanDistance(b, km.currentIndex) <= ScanDistance(b, k)
                 /\ km.currentIndex =
                       IF above # {} THEN MinOf(above) ELSE MinOf(Unexhausted(b))

C6_Witness ==
    /\ rot.op = "rotateToNext"
    /\ rot.found
    /\ km.keys = 3
    /\ rot.before.currentIndex = 2
    /\ rot.before.exhaustedKeys = {0}
    /\ km.currentIndex = 1

(***************************************************************************)
(* Claims about fetchPlaylistVideos (specification SpecFetch).              *)
(***************************************************************************)
RemovedSentinels == {PrivateVideo, DeletedVideo, ArabicPrivateVideo, ArabicDeletedVideo}
Range(q) == {q[i] : i \in DOMAIN q}

\* C9: no member fetchPlaylistVideos returns (or has collected so far) has a
\* title equal to a removed sentinel, whatever its thumbnail and id, and none
\* has no thumbnail together with a title whose lower-cased form contains
\* 'private'.
C9_NoSentinelMemberReturned ==
    \A v \in Range(fp.videos) :
        /\ v.title \notin RemovedSentinels
        /\ ~(v.thumbnail = "" /\ includes(toLowerCase(v.title), privateWord))

\* a sentinel with a thumbnail came on the second page, a shouted 'PRIVATE'
\* without thumbnail on the first, and the call returned without them
C9_Witness ==
    /\ fp.status = "returned"
    /\ Len(fp.tokens) = 2
    /\ Len(fp.raw) = 2
    /\ fp.raw[1].title = ShoutedPrivate /\ fp.raw[1].thumbnail = ""
    /\ fp.raw[2].title = ArabicDeletedVideo /\ fp.raw[2].thumbnail = "t"
    /\ fp.raw[2].cdId # 0
    /\ fp.videos = <<>>

(***************************************************************************)
(* Claims about updateIndexFiles (specification SpecIndex).                 *)
(***************************************************************************)
\* C10: a second updateIndexFiles call with the same playlist leaves every
\* index file with exactly the contents the first call left.
C10_SecondSyncChangesNothing == ix.calls >= 2 => fs = ix.before

\* the second call ran on files the first call had rewritten: a main category
\* file that held the playlist twice, a channel file that did not hold it
C10_Witness ==
    /\ ix.calls = 2
    /\ ix.playlist.categories = <<"c1", "c1">>
    /\ fs.catMain["c1"].entries = <<IndexEntryOf(fs, ix.playlist), StaleEntry>>
    /\ fs.catMain["c1"].compact
    /\ fs.channelFile.entries = <<OtherEntry, IndexEntryOf(fs, ix.playlist)>>
    /\ fs.unified.kind = "malformed"
    /\ fs.channels.kind = "json"

\* an index file that parses, can be written, and holds an entry of the playlist
Holds(f, id) ==
    /\ f.kind = "json"
    /\ \E i \in DOMAIN f.entries : f.entries[i].id = id
\* an index file that holds the entry updateIndexFiles built
HoldsEntry(f, indexEntry) ==
    /\ f.kind = "json"
    /\ \E i \in DOMAIN f.entries : f.entries[i] = indexEntry
\* the entry the last call built
LastIndexEntry == IndexEntryOf(ix.before, ix.playlist)
\* the category files the last call is to write for the categories of the
\* playlist: the main file when it exists, else the sub file
MainTargeted(c) ==
    /\ c \in Range(ix.playlist.categories)
    /\ existsSync(ix.before.catMain[c])
SubTargeted(c) ==
    /\ c \in Range(ix.playlist.categories)
    /\ ~existsSync(ix.before.catMain[c])
    /\ existsSync(ix.before.catSub[c])
\* a target the call can parse and write
WellFormed(f) == f.kind = "json" /\ f.isArray
\* what a well-formed target holds after the call
Upserted(before, after) ==
    /\ after.kind = "json"
    /\ after.entries = Upsert(before.entries, LastIndexEntry)
    /\ HoldsEntry(after, LastIndexEntry)

\* C11: after updateIndexFiles, every category file (main or sub), the
\* channel file and the unified index that held an entry with the id of the
\* playlist before the call holds the entry built by the call.
C11_EveryHolderUpdated ==
    ix.calls >= 1 =>
        /\ \A c \in Categories :
              /\ Holds(ix.before.catMain[c], ix.playlist.id)
                    => HoldsEntry(fs.catMain[c], LastIndexEntry)
              /\ Holds(ix.before.catSub[c], ix.playlist.id)
                    => HoldsEntry(fs.catSub[c], LastIndexEntry)
        /\ Holds(ix.before.channelFile, ix.playlist.id)
              => HoldsEntry(fs.channelFile, LastIndexEntry)
        /\ Holds(ix.before.unified, ix.playlist.id)
              => HoldsEntry(fs.unified, LastIndexEntry)

\* C12 as stated: updateIndexFiles leaves every index file that held no entry
\* with the id of the playlist exactly as it was.
C12_NeverAddsReference ==
    ix.calls >= 1 =>
        /\ \A c \in Categories :
              /\ ~Holds(ix.before.catMain[c], ix.playlist.id)
                    => fs.catMain[c] = ix.before.catMain[c]
              /\ ~Holds(ix.before.catSub[c], ix.playlist.id)
                    => fs.catSub[c] = ix.before.catSub[c]
        /\ ~Holds(ix.before.channelFile, ix.playlist.id)
              => fs.channelFile = ix.before.channelFile
        /\ ~Holds(ix.before.unified, ix.playlist.id)
              => fs.unified = ix.before.unified

\* C12 amended: updateIndexFiles leaves untouched channels.json, every file
\* that is missing, does not parse or cannot be written, every category file
\* other than the one findCategoryFile resolves for a category of the
\* playlist, and a channel file whose playlists is not an array; a remaining
\* target that held no entry with the id of the playlist gets exactly one,
\* appended at its end.
C12_AppendsOnlyToResolvedTargets ==
    ix.calls >= 1 =>
        LET Same(before, after) == after = before
            Appended(before, after) ==
                IF Holds(before, ix.playlist.id) THEN TRUE
                ELSE after = JsonFile(Append(before.entries, LastIndexEntry), TRUE)
            Target(before, after) ==
                IF WellFormed(before) THEN Appended(before, after)
                ELSE Same(before, after)
        IN  /\ fs.channels = ix.before.channels
            /\ \A c \in Categories :
                  /\ IF MainTargeted(c)
                     THEN Target(ix.before.catMain[c], fs.catMain[c])
                     ELSE Same(ix.before.catMain[c], fs.catMain[c])
                  /\ IF SubTargeted(c)
                     THEN Target(ix.before.catSub[c], fs.catSub[c])
                     ELSE Same(ix.before.catSub[c], fs.catSub[c])
            /\ Target(ix.before.channelFile, fs.channelFile)
            /\ Target(ix.before.unified, fs.unified)
\* one call appended the entry to a main category file and to the unified
\* index, and left alone the sub file of the same category
C12_Witness ==
    /\ ix.calls = 1
    /\ ix.playlist.categories = <<"c1">>
    /\ ix.before.catMain["c1"] = JsonFile(<<OtherEntry>>, FALSE)
    /\ fs.catMain["c1"].entries = <<OtherEntry, LastIndexEntry>>
    /\ ix.before.catSub["c1"] = JsonFile(<<OtherEntry>>, FALSE)
    /\ fs.catSub["c1"] = ix.before.catSub["c1"]
    /\ ix.before.unified = JsonFile(<<>>, FALSE)
    /\ fs.unified.entries = <<LastIndexEntry>>
    /\ fs.channelFile = MissingFile

\* C13: whichever targets of updateIndexFiles fail to parse or to be written,
\* every other target that exists and is well formed (the category file
\* resolved for a category of the playlist, the channel file, the unified
\* index) holds the entry after the call.
C13_FailureLeavesOtherTargetsSynced ==
    ix.calls >= 1 =>
        /\ \A c \in Categories :
              /\ (MainTargeted(c) /\ WellFormed(ix.before.catMain[c]))
                    => Upserted(ix.before.catMain[c], fs.catMain[c])
              /\ (SubTargeted(c) /\ WellFormed(ix.before.catSub[c]))
                    => Upserted(ix.before.catSub[c], fs.catSub[c])
        /\ WellFormed(ix.before.channelFile)
              => Upserted(ix.before.channelFile, fs.channelFile)
        /\ WellFormed(ix.before.unified)
              => Upserted(ix.before.unified, fs.unified)
\* the category file did not parse and the channel file could not be
\* written, and the unified index got the entry
C13_Witness ==
    /\ ix.calls = 1
    /\ ix.playlist.categories = <<"c1">>
    /\ ix.before.catMain["c1"] = MalformedFile
    /\ ix.before.channelFile.kind = "readonly"
    /\ ix.before.channels = MalformedFile
    /\ ix.before.unified = JsonFile(<<StaleEntry, OtherEntry>>, FALSE)
    /\ fs.unified.entries = <<LastIndexEntry, OtherEntry>>
    /\ fs.catMain["c1"] = MalformedFile
    /\ fs.channelFile = ix.before.channelFile

(***************************************************************************)
(* Claims about main (specification SpecMain).                              *)
(***************************************************************************)
\* main is past the loop that builds needsUpdate
Classified ==
    \/ mp.pc \in {"update", "fetch", "report"}
    \/ mp.pc \in {"done", "exited"} /\ Len(disk.log) > 0
\* the playlists the classification looks at: in auto-update.json, with a
\* remote snapshot, and with a playlist file that parses
Compared(id) ==
    /\ mp.start.disk.manifest[id].tracked
    /\ mp.snapshots[id].found
    /\ mp.start.disk.files[id].kind = "json"
FlaggedAt(id) == {k \in DOMAIN mp.needsUpdate : mp.needsUpdate[k].id = id}
CountDiffers(id) ==
    remote[id].videoCount # mp.start.disk.manifest[id].videoCount
MetadataDiffers(id) ==
    \/ remote[id].title # mp.start.disk.files[id].title
    \/ remote[id].thumbnail # mp.start.disk.files[id].thumbnail
\* the update of needsUpdate[k] has begun or is over
UpdateBegun(k) ==
    \/ mp.i > k
    \/ mp.i = k /\ mp.pc \in {"fetch", "report", "done", "exited"}

\* C7: once main has classified the playlists, a playlist with a remote
\* snapshot (and a readable playlist file) is in needsUpdate iff the remote
\* member count differs from the count auto-update.json stores or the title
\* or thumbnail of the playlist file differs from the remote one; its entry
\* is marked countChanged iff the counts differ, and its update walks the
\* member pagination iff the counts differ.
C7_FlaggedIffDiffers ==
    Classified =>
        \A id \in EntityIds :
            Compared(id) =>
                /\ Cardinality(FlaggedAt(id)) =
                      (IF CountDiffers(id) \/ MetadataDiffers(id) THEN 1 ELSE 0)
                /\ \A k \in FlaggedAt(id) :
                      mp.needsUpdate[k].countChanged = CountDiffers(id)
                /\ ~CountDiffers(id) => mp.pageRequests[id] = 0
                /\ (CountDiffers(id) /\ mp.outcome[id] = "updated")
                      => mp.pageRequests[id] > 0
C7_Witness ==
    /\ mp.pc = "report"
    /\ Compared("P1") /\ Compared("P2")
    /\ CountDiffers("P1") /\ ~MetadataDiffers("P1")
    /\ ~CountDiffers("P2") /\ MetadataDiffers("P2")
    /\ mp.outcome["P1"] = "updated" /\ mp.outcome["P2"] = "updated"
    /\ mp.pageRequests["P1"] > 0 /\ mp.pageRequests["P2"] = 0

Aborted == mp.pc = "exited" /\ mp.batch < Len(mp.localPlaylists)

\* C14: when the youtubeRequest of any batch of the scan throws
\* ALL_KEYS_EXHAUSTED, main exits with code 1 there and then: it takes no
\* further step, needsUpdate stays empty, and the playlist files, the index
\* files and auto-update.json are as the run found them.
C14_ExhaustedScanAborts ==
    /\ [][(mp.pc = "scan" /\ req'.status = "ALL_KEYS_EXHAUSTED") => Aborted']_vars
    /\ [](Aborted =>
            /\ mp.exitCode = 1
            /\ mp.needsUpdate = <<>>
            /\ disk = mp.start.disk
            /\ fs = mp.start.fs
            /\ ~ENABLED NextMain)
\* the second batch hit exhaustion after the first had brought a snapshot
\* whose count differs from the local one
C14_Witness ==
    /\ Aborted
    /\ mp.batch = BATCH_SIZE
    /\ Compared("P1") /\ CountDiffers("P1")
    /\ allExhausted(km)

\* the update loop was left by the break of its catch
Stopped == \E id \in EntityIds : mp.outcome[id] = "stopped"
\* the fetch of the current playlist throws ALL_KEYS_EXHAUSTED in this step
FetchExhausts ==
    mp.pc = "fetch" /\ fp'.status = "threw" /\ fp'.error = "ALL_KEYS_EXHAUSTED"
\* needsUpdate lists playlists in the order of localPlaylists
InEnumerationOrder ==
    \A j, k \in DOMAIN mp.needsUpdate :
        j < k =>
            \E a, b \in DOMAIN mp.localPlaylists :
                /\ a < b
                /\ mp.localPlaylists[a].id = mp.needsUpdate[j].id
                /\ mp.localPlaylists[b].id = mp.needsUpdate[k].id

\* C15: the update loop takes the flagged playlists in the order of
\* localPlaylists, one after the other; when the fetch of the i-th throws
\* ALL_KEYS_EXHAUSTED the step writes nothing and main goes to its report;
\* from then on no request is issued, the playlist files and manifest entries
\* of the i-th and later flagged playlists are as the run found them, and no
\* playlist file, manifest entry or index file changes any more.
C15_ExhaustedUpdateStopsLoop ==
    /\ [](/\ InEnumerationOrder
          /\ \A k \in DOMAIN mp.needsUpdate :
                mp.outcome[mp.needsUpdate[k].id] # "none" => k <= mp.i)
    /\ [][FetchExhausts =>
            /\ mp'.pc = "report"
            /\ mp'.outcome[mp.needsUpdate[mp.i].id] = "stopped"
            /\ disk' = disk /\ fs' = fs]_vars
    /\ [](Stopped =>
            /\ mp.pc \in {"report", "done", "exited"}
            /\ ~ENABLED MainScanBatch /\ ~ENABLED MainUpdate
            /\ ~ENABLED MainFetchPage
            /\ \A k \in DOMAIN mp.needsUpdate :
                  k >= mp.i =>
                      LET id == mp.needsUpdate[k].id IN
                      /\ disk.files[id] = mp.start.disk.files[id]
                      /\ disk.manifest[id] = mp.start.disk.manifest[id]
                      /\ mp.outcome[id] \in {"none", "stopped"})
    /\ [][Stopped =>
            /\ disk'.files = disk.files /\ disk'.manifest = disk.manifest
            /\ fs' = fs /\ km' = km
            /\ mp'.pageRequests = mp.pageRequests
            /\ mp'.successCount = mp.successCount]_vars
\* the first flagged playlist was updated, the fetch of the second hit
\* exhaustion, and the report has been written
C15_Witness ==
    /\ mp.pc = "done"
    /\ mp.outcome["P1"] = "updated" /\ mp.outcome["P2"] = "stopped"
    /\ disk.files["P1"] # mp.start.disk.files["P1"]
    /\ disk.files["P2"] = mp.start.disk.files["P2"]
    /\ mp.successCount = 1
    /\ Len(disk.log) = 1

\* the youtubeRequest of the current page fails in this step with an error
\* other than ALL_KEYS_EXHAUSTED
FetchFails ==
    mp.pc = "fetch" /\ req'.status \notin {"ok", "ALL_KEYS_EXHAUSTED"}
WithOutcome(o) == {id \in EntityIds : mp.outcome[id] = o}

\* C16: when a page request of the fetch of a flagged playlist fails with an
\* error other than ALL_KEYS_EXHAUSTED, on the first page or a later one, the
\* step writes no file, adds one to failCount and moves to the next flagged
\* playlist (or to the report after the last); the playlist file and manifest
\* entry of a failed playlist stay as the run found them, failCount and
\* successCount count the failed and the updated playlists, and the file and
\* manifest entry of an updated playlist are not touched again.
C16_FailedFetchIsolated ==
    /\ [][FetchFails =>
            /\ disk' = disk /\ fs' = fs
            /\ mp'.failCount = mp.failCount + 1
            /\ mp'.successCount = mp.successCount
            /\ mp'.outcome[mp.needsUpdate[mp.i].id] = "failed"
            /\ mp'.i = mp.i + 1
            /\ mp'.pc = IF mp.i < Len(mp.needsUpdate) THEN "update" ELSE "report"]_vars
    /\ [](/\ mp.failCount = Cardinality(WithOutcome("failed"))
          /\ mp.successCount = Cardinality(WithOutcome("updated"))
          /\ \A id \in WithOutcome("failed") :
                /\ disk.files[id] = mp.start.disk.files[id]
                /\ disk.manifest[id] = mp.start.disk.manifest[id])
    /\ [][\A id \in WithOutcome("updated") :
            /\ disk'.files[id] = disk.files[id]
            /\ disk'.manifest[id] = disk.manifest[id]]_vars
\* P1 was updated, then the second page of the fetch of P2 failed after the
\* first had brought a member; the run reported one success and one failure
C16_Witness ==
    /\ mp.pc = "done"
    /\ mp.outcome["P1"] = "updated" /\ mp.outcome["P2"] = "failed"
    /\ fp.status = "threw" /\ Len(fp.tokens) = 2 /\ Len(fp.videos) = 1
    /\ disk.files["P1"] # mp.start.disk.files["P1"]
    /\ disk.files["P2"] = mp.start.disk.files["P2"]
    /\ mp.successCount = 1 /\ mp.failCount = 1
    /\ disk.log[1].updated = 1 /\ disk.log[1].failed = 1

\* the youtubeRequest of the current batch fails in this step with an error
\* other than ALL_KEYS_EXHAUSTED
BatchFails ==
    mp.pc = "scan" /\ req'.status \notin {"ok", "ALL_KEYS_EXHAUSTED"}

\* C17: a playlist for which the scan brought no snapshot (the answer did not
\* hold its id, or the request of its batch failed with an error other than
\* ALL_KEYS_EXHAUSTED) is never in needsUpdate, and its playlist file and its
\* entry of auto-update.json stay as the run found them; a failed batch adds
\* no snapshot and the scan goes on with the next batch, or with the
\* classification after the last.
C17_NoSnapshotNoChange ==
    /\ [](\A id \in EntityIds :
            ~mp.snapshots[id].found =>
                /\ FlaggedAt(id) = {}
                /\ mp.outcome[id] = "none"
                /\ disk.files[id] = mp.start.disk.files[id]
                /\ disk.manifest[id] = mp.start.disk.manifest[id])
    /\ [][BatchFails =>
            /\ mp'.snapshots = mp.snapshots
            /\ mp'.batch = mp.batch + BATCH_SIZE
            /\ mp'.pc = IF mp.batch + BATCH_SIZE < Len(mp.localPlaylists)
                        THEN "scan" ELSE "classify"
            /\ disk' = disk /\ fs' = fs]_vars
\* the batch of P1 failed though the remote holds P1 with another count, the
\* batch of P2 then brought a snapshot, and P2 was updated
C17_Witness ==
    /\ mp.pc = "done"
    /\ mp.start.disk.manifest["P1"].tracked
    /\ remote["P1"].present /\ CountDiffers("P1")
    /\ ~mp.snapshots["P1"].found
    /\ mp.snapshots["P2"].found
    /\ mp.outcome["P2"] = "updated"
    /\ disk.files["P1"] = mp.start.disk.files["P1"]
    /\ disk.files["P1"].kind = "json"

\* main returned or called process.exit
Ended == mp.pc \in {"done", "exited"}

\* C18: a run of main that has ended has written an entry to the log file.
C18_EndedRunHasLogEntry == Ended => Len(disk.log) > 0

\* C19 as stated: the exit code is nonzero only when needsUpdate holds at
\* least one playlist and none of them was updated.
C19_NonzeroExitOnlyWhenFlaggedNoneUpdated ==
    mp.exitCode # 0 =>
        /\ Len(mp.needsUpdate) >= 1
        /\ WithOutcome("updated") = {}

\* C19 amended: a run ends with a nonzero exit code exactly when
\* ALL_KEYS_EXHAUSTED aborted the scan, or when at least one flagged playlist
\* failed and no flagged playlist was updated.
C19_NonzeroExitOnlyAbortOrAllFailed ==
    /\ mp.exitCode \in {0, 1}
    /\ ~Ended => mp.exitCode = 0
    /\ Ended =>
          (mp.exitCode # 0 <=>
              \/ Aborted
              \/ /\ Len(mp.needsUpdate) >= 1
                 /\ WithOutcome("failed") # {}
                 /\ WithOutcome("updated") = {})
\* a run whose two flagged playlists both failed exited with code 1 after
\* its report
C19_Witness ==
    /\ mp.pc = "exited"
    /\ ~Aborted
    /\ mp.exitCode = 1
    /\ WithOutcome("failed") = {"P1", "P2"}
    /\ Len(disk.log) = 1

\* an index file shows videoCount n for the playlist
ShowsCount(f, id, n) ==
    /\ f.kind = "json"
    /\ \A i \in DOMAIN f.entries : f.entries[i].id = id => f.entries[i].videoCount = n

\* C20: a playlist whose local count differed from the remote count R and
\* whose update succeeded has a playlist file with videoCount R and R videos,
\* and every index file that held the playlist when the run began shows
\* videoCount R for it.
C20_RemoteCountEverywhere ==
    \A id \in WithOutcome("updated") :
        CountDiffers(id) =>
            /\ disk.files[id].videoCount = remote[id].videoCount
            /\ Len(disk.files[id].videos) = remote[id].videoCount
            /\ \A c \in Categories :
                  /\ Holds(mp.start.fs.catMain[c], id)
                        => ShowsCount(fs.catMain[c], id, remote[id].videoCount)
                  /\ Holds(mp.start.fs.catSub[c], id)
                        => ShowsCount(fs.catSub[c], id, remote[id].videoCount)
            /\ Holds(mp.start.fs.channelFile, id)
                  => ShowsCount(fs.channelFile, id, remote[id].videoCount)
            /\ Holds(mp.start.fs.unified, id)
                  => ShowsCount(fs.unified, id, remote[id].videoCount)

(***************************************************************************)
(* Claims about the pagination of fetchPlaylistVideos (SpecFetch).          *)
(***************************************************************************)
\* the positions of the listing whose item is to be returned
KeptPositions ==
    {p \in DOMAIN fp.raw :
        /\ fp.raw[p].cdId # 0 \/ fp.raw[p].ridId # 0
        /\ fp.raw[p].title \notin RemovedSentinels
        /\ ~(fp.raw[p].thumbnail = "" /\ includes(toLowerCase(fp.raw[p].title), privateWord))}

\* C21: a call of fetchPlaylistVideos sends its first request without a page
\* token and its k-th request with the token the (k-1)-th answer carried (the
\* remote numbers them 1, 2, ...); it goes on while the last answer carried a
\* token and returns at the first answer without one; what it returns are the
\* items of all answered pages that are not dropped, in the order of the
\* listing, each once, with the title and thumbnail the remote gave.
C21_WalksAllPagesInOrder ==
    /\ \A k \in DOMAIN fp.tokens : fp.tokens[k] = k - 1
    /\ (fp.status = "running" /\ fp.tokens # <<>>) => fp.pageToken = Len(fp.tokens)
    /\ fp.status = "returned" => fp.pageToken = 0
    /\ fp.status \in {"running", "returned"} =>
          /\ \A i \in DOMAIN fp.videos :
                /\ fp.videos[i].id \in KeptPositions
                /\ fp.videos[i].title = fp.raw[fp.videos[i].id].title
                /\ fp.videos[i].thumbnail = fp.raw[fp.videos[i].id].thumbnail
          /\ \A i, j \in DOMAIN fp.videos : i < j => fp.videos[i].id < fp.videos[j].id
          /\ {fp.videos[i].id : i \in DOMAIN fp.videos} = KeptPositions
\* a call returned after two pages that each brought one kept item
C21_Witness ==
    /\ fp.status = "returned"
    /\ fp.tokens = <<0, 1>>
    /\ Len(fp.raw) = 2
    /\ Len(fp.videos) = 2
    /\ fp.videos[1].id = 1 /\ fp.videos[2].id = 2

(***************************************************************************)
(* Claims about the key manager over a run of requests (Spec).              *)
(***************************************************************************)
\* this step issued a remote call, whose answer is the last entry of the log
CallAnswered == Len(req'.log) = Len(req.log) + 1 /\ req.status = "running"
QuotaAnswer(o) == o.status = 403 /\ o.reason \in {"quotaExceeded", "dailyLimitExceeded"}

\* C22: currentIndex and exhaustedKeys change only in a step whose remote
\* call was answered 403 with reason quotaExceeded or dailyLimitExceeded, and
\* then the key of that call joins exhaustedKeys; a 2xx answer, a failure of
\* fetch, another status, and a 403 with another reason leave both as they
\* were, as does a step that issues no call.
C22_OnlyQuotaSignalMovesRotator ==
    [][/\ km' # km =>
            /\ CallAnswered
            /\ QuotaAnswer(LastEntry(req').outcome)
            /\ km'.exhaustedKeys = km.exhaustedKeys \cup {km.currentIndex}
            /\ km'.keys = km.keys
       /\ (CallAnswered /\ ~QuotaAnswer(LastEntry(req').outcome)) => km' = km]_vars
\* one request on a fresh manager: a 403 with another reason, then a 500 that
\* names quotaExceeded, then success, all on key 0 with nothing exhausted
C22_Witness ==
    /\ reqCount = 1
    /\ Len(req.log) = 3
    /\ req.log[1].outcome = [status |-> 403, reason |-> "forbidden"]
    /\ req.log[2].outcome = [status |-> 500, reason |-> "quotaExceeded"]
    /\ req.log[3].outcome.status = 200
    /\ req.status = "ok"
    /\ km.currentIndex = 0 /\ km.exhaustedKeys = {}

(***************************************************************************)
(* Claims about the course of a run of main (SpecMainFair).                 *)
(***************************************************************************)
\* the phases of a run in their order: enumerating the local playlists,
\* detecting (scan and classification), updating, reporting, ended
PhaseRank(pc) ==
    IF pc = "start" THEN 1
    ELSE IF pc \in {"scan", "classify"} THEN 2
    ELSE IF pc \in {"update", "fetch"} THEN 3
    ELSE IF pc = "report" THEN 4
    ELSE 5

\* the steps a run can still take within its phase: batches left to scan,
\* flagged playlists left to update and pages left to ask for
StepsLeftInPhase ==
    IF mp.pc = "scan" THEN Len(mp.localPlaylists) - mp.batch
    ELSE IF mp.pc = "update"
    THEN (Len(mp.needsUpdate) - mp.i + 1) * (MaxPages + 2)
    ELSE IF mp.pc = "fetch"
    THEN (Len(mp.needsUpdate) - mp.i + 1) * (MaxPages + 2) - 1 - Len(fp.tokens)
    ELSE 0
\* more than a phase can take
PhaseWeight == (Len(EntityOrder) + 1) * (MaxPages + 2) + 1
Variant == (5 - PhaseRank(mp.pc)) * PhaseWeight + StepsLeftInPhase
\* a step of main can be taken: its position has code to run, and an awaited
\* request has an outcome
CanStep ==
    \/ mp.pc \in {"start", "classify", "update", "report"}
    \/ /\ mp.pc \in {"scan", "fetch"}
       /\ RequestRuns(km) # {}

\* C23: every run of main ends (it returns, or exits at the scan or after the
\* report): every step lowers a natural number and a run that has not ended
\* can take a step, so a run that goes on taking steps ends; its phase never
\* goes back, an ended run takes no further step, and the exit from the scan
\* is taken only in the detecting phase.
C23_RunEndsPhasesForward ==
    /\ [][Variant' < Variant]_vars
    /\ [](Variant \in Nat /\ StepsLeftInPhase < PhaseWeight)
    /\ [](~Ended => CanStep)
    /\ [][PhaseRank(mp'.pc) >= PhaseRank(mp.pc)]_vars
    /\ [][~Ended]_vars
    /\ [][(Aborted' /\ ~Aborted) => mp.pc = "scan"]_vars
\* a run went through every phase: two playlists scanned, one updated after
\* a fetch of two pages, the other failed, the report written
C23_Witness ==
    /\ mp.pc = "done"
    /\ mp.batch = 2 * BATCH_SIZE
    /\ Len(mp.needsUpdate) = 2
    /\ mp.outcome["P1"] = "failed" /\ mp.outcome["P2"] = "updated"
    /\ mp.pageRequests["P2"] = 2
    /\ Len(disk.log) = 1

(***************************************************************************)
(* Claims about the directory-scan updater (SpecLegacy).                    *)
(***************************************************************************)
\* the video ids of the items of all pages of the listing that are not removed
LegacyKeptIds ==
    {k \in DOMAIN lg.listing :
        lg.listing[k] # <<>> /\ lg.listing[k][1] \notin RemovedSentinels}

\* C24: the file of a playlist is either as the run found it or holds the
\* kept members of every page of the listing.
C24_FileWholeOrUnchanged ==
    \/ lg.file = LegacyFile
    \/ /\ {lg.file.videos[i].id : i \in DOMAIN lg.file.videos} = LegacyKeptIds
       /\ lg.file.videoCount = Cardinality(LegacyKeptIds)

(***************************************************************************)
(* Claims about the key manager over any number of requests (Spec).         *)
(***************************************************************************)
\* C25: over any number of youtubeRequest calls on one ApiKeyManager, the
\* current key is in exhaustedKeys only when every key is; every remote call
\* is issued with the current key, which is not in exhaustedKeys at that
\* moment, so a key once marked is never used again; exhaustedKeys never
\* loses a key.
C25_ExhaustedKeyNeverUsed ==
    /\ [](km.currentIndex \in km.exhaustedKeys => km.exhaustedKeys = 0 .. km.keys - 1)
    /\ [](km.currentIndex \in 0 .. km.keys - 1 /\ km.exhaustedKeys \subseteq 0 .. km.keys - 1)
    /\ [][CallAnswered =>
            /\ LastEntry(req').key = km.currentIndex
            /\ km.currentIndex \notin km.exhaustedKeys]_vars
    /\ [][km.exhaustedKeys \subseteq km'.exhaustedKeys]_vars
\* the third request of a run is answered on key 2 after keys 0 and 1 were
\* marked exhausted by earlier requests
C25_Witness ==
    /\ reqCount = 3
    /\ km.exhaustedKeys = {0, 1}
    /\ km.currentIndex = 2
    /\ req.status = "ok"
    /\ Len(req.log) = 1
    /\ req.log[1].key = 2

(***************************************************************************)
(* Claims about the counters of the update loop (SpecMain).                 *)
(***************************************************************************)
\* the flagged playlists the update loop has reached
Visited ==
    IF mp.pc = "update" THEN mp.i - 1
    ELSE IF mp.i <= Len(mp.needsUpdate) THEN mp.i
    ELSE Len(mp.needsUpdate)

\* C26: successCount + failCount never exceeds the number of flagged
\* playlists the loop has reached; the counted playlists are distinct flagged
\* ones (successCount those updated, failCount those failed); logEntries has
\* one entry per success, for distinct flagged playlists; and at the report
\* the two counters add up to needsUpdate.length iff the loop was not left by
\* the break on ALL_KEYS_EXHAUSTED.
C26_CountersAccountForVisited ==
    /\ mp.successCount + mp.failCount <= Visited
    /\ mp.successCount = Cardinality(WithOutcome("updated"))
    /\ mp.failCount = Cardinality(WithOutcome("failed"))
    /\ \A id \in WithOutcome("updated") \cup WithOutcome("failed") :
          \E k \in 1 .. Visited : mp.needsUpdate[k].id = id
    /\ Len(mp.logEntries) = mp.successCount
    /\ {mp.logEntries[k].id : k \in DOMAIN mp.logEntries} = WithOutcome("updated")
    /\ mp.pc = "report" =>
          ((mp.successCount + mp.failCount = Len(mp.needsUpdate)) <=> ~Stopped)
\* at the report of a run that updated the first flagged playlist and was
\* stopped by exhaustion at the second
C26_Witness ==
    /\ mp.pc = "report"
    /\ Len(mp.needsUpdate) = 2
    /\ Stopped
    /\ mp.successCount = 1 /\ mp.failCount = 0
    /\ Len(mp.logEntries) = 1

(***************************************************************************)
(* Claims about a run of main that follows another (SpecMain).              *)
(***************************************************************************)
\* the snapshots of a scan whose every batch is answered
FullSnapshots == SnapshotsOfBatch(NoSnapshots, EntityOrder, remote)
\* needsUpdate of a run of main that starts on the current disk, the remote
\* being as it is, when every batch of its scan is answered
FollowingNeedsUpdate ==
    BuildNeedsUpdate(disk, FullSnapshots, readPlaylistsIndex(disk), <<>>)
\* the run has ended, every batch of its scan was answered, and every flagged
\* playlist was updated
AllFlaggedUpdated ==
    /\ mp.pc = "done"
    /\ mp.snapshots = FullSnapshots
    /\ mp.successCount = Len(mp.needsUpdate)
    /\ mp.failCount = 0
    /\ ~Stopped
\* the member listing of an updated playlist lost no item to the filter
NothingDropped ==
    \A k \in DOMAIN mp.needsUpdate :
        mp.needsUpdate[k].countChanged =>
            Len(disk.files[mp.needsUpdate[k].localPath].videos)
                = mp.needsUpdate[k].remoteCount

\* C27: after a run in which every flagged playlist was updated, a run that
\* follows at once, against the same remote, flags no playlist.
C27_FollowingRunFlagsNothing ==
    AllFlaggedUpdated => FollowingNeedsUpdate = <<>>
\* the part of C27 the runs do satisfy: when the filter dropped no listed
\* item, the following run flags no playlist
C27_ConvergesWhenNothingDropped ==
    AllFlaggedUpdated /\ NothingDropped => FollowingNeedsUpdate = <<>>

(***************************************************************************)
(* Claims about auto-update.json and the playlist files together (SpecMain) *)
(***************************************************************************)
\* for every playlist of auto-update.json whose file parses, the videoCount
\* of the entry, the videoCount of the file and the number of videos of the
\* file are the same
InStep(d) ==
    \A id \in EntityIds :
        d.manifest[id].tracked /\ d.files[id].kind = "json" =>
            /\ d.manifest[id].videoCount = d.files[id].videoCount
            /\ d.files[id].videoCount = Len(d.files[id].videos)
\* the playlist was flagged for its count
FlaggedForCount(id) ==
    \E k \in DOMAIN mp.needsUpdate :
        mp.needsUpdate[k].id = id /\ mp.needsUpdate[k].countChanged

\* C28: when auto-update.json and the playlist files are in step at the start
\* of a run, they are in step at every point of it and at its end, whatever
\* mix of full updates, metadata-only updates, failures and exhaustion the
\* run goes through.
C28_ManifestAndFilesStayInStep ==
    mp.pc # "none" /\ InStep(mp.start.disk) => InStep(disk)
\* a run has ended that updated P1 in full, the filter dropping one of its
\* two listed items, updated P2 in its metadata only, and changed both
C28_Witness ==
    /\ Ended
    /\ mp.outcome["P1"] = "updated" /\ FlaggedForCount("P1")
    /\ remote["P1"].videoCount = 2 /\ Len(disk.files["P1"].videos) = 1
    /\ mp.outcome["P2"] = "updated" /\ ~FlaggedForCount("P2")
    /\ disk.files["P2"] # mp.start.disk.files["P2"]
    /\ InStep(mp.start.disk)

(***************************************************************************)
(* Claims about what updateIndexFiles leaves alone (SpecIndex).             *)
(***************************************************************************)
\* the entries of other playlists, in their order
OtherEntries(entries) ==
    LET NotOfPlaylist(e) == e.id # ix.playlist.id
    IN  SelectSeq(entries, NotOfPlaylist)
\* how many entries have the id of the playlist
CountOfPlaylist(entries) ==
    Cardinality({i \in DOMAIN entries : entries[i].id = ix.playlist.id})
\* what the last call may do to one index file; written tells whether the
\* file is a target the call parses and writes
Framed(before, after, written) ==
    /\ OtherEntries(after.entries) = OtherEntries(before.entries)
    /\ Len(after.entries) <= Len(before.entries) + 1
    /\ ~existsSync(before) => after = before
    /\ after.kind = before.kind
    /\ (written /\ CountOfPlaylist(before.entries) <= 1)
          => CountOfPlaylist(after.entries) = 1

\* C29: in every index file updateIndexFiles writes, the entries of other
\* playlists are kept as they were and in their order, at most one entry is
\* added, and a file that held at most one entry of the playlist holds
\* exactly one afterwards; a file that did not exist is not created.
C29_OtherEntriesKept ==
    ix.calls >= 1 =>
        /\ \A c \in Categories :
              /\ Framed(ix.before.catMain[c], fs.catMain[c],
                        MainTargeted(c) /\ WellFormed(ix.before.catMain[c]))
              /\ Framed(ix.before.catSub[c], fs.catSub[c],
                        SubTargeted(c) /\ WellFormed(ix.before.catSub[c]))
        /\ Framed(ix.before.channelFile, fs.channelFile,
                  WellFormed(ix.before.channelFile))
        /\ Framed(ix.before.unified, fs.unified, WellFormed(ix.before.unified))
        /\ fs.channels = ix.before.channels
\* one call replaced the entry of the playlist behind another playlist's
\* entry in the main category file, appended one to the unified index in
\* front of which two other entries stay, and created neither the missing
\* sub file nor the missing channel file
C29_Witness ==
    /\ ix.calls = 1
    /\ ix.playlist.categories = <<"c2", "c1">>
    /\ ix.before.catMain["c1"] = JsonFile(<<OtherEntry, StaleEntry>>, FALSE)
    /\ fs.catMain["c1"].entries = <<OtherEntry, LastIndexEntry>>
    /\ ix.before.unified = JsonFile(<<OtherEntry, OtherEntry>>, FALSE)
    /\ fs.unified.entries = <<OtherEntry, OtherEntry, LastIndexEntry>>
    /\ ix.before.catSub["c1"] = MissingFile /\ fs.catSub["c1"] = MissingFile
    /\ ix.before.channelFile = MissingFile /\ fs.channelFile = MissingFile
    /\ fs.catMain["c2"] = MissingFile /\ fs.catSub["c2"] = MissingFile

====
